---- MODULE Spec2Model ----
(***************************************************************************)
(* A model of the tracing-tracy layer (src/tracing-tracy/src/lib.rs): the  *)
(* thread-local shadow stack of Tracy spans driven by on_enter / on_exit,  *)
(* and the rendering of an event's fields into one message by on_event.    *)
(*                                                                         *)
(* The profiler client is external.  Its calls are recorded: `last` holds  *)
(* the calls made by the most recent callback, in call order; `frames`     *)
(* holds every Span the profiler was asked to create and how often it was  *)
(* dropped; `diag` counts the colored diagnostics sent from each thread.   *)
(* `hist` is a history variable: the span callbacks each thread received.  *)
(***************************************************************************)
EXTENDS Integers, Sequences, FiniteSets, TLC

VARIABLES
    stack,        \* TRACY_SPAN_STACK: stack key -> sequence of (span, id), back = top
    stack_depth,  \* TracyLayer.stack_depth
    frames,       \* profiler: handle -> [thread, id, ends] for every Span created
    diag,         \* profiler: thread -> number of diagnostics of each kind sent there
    last,         \* profiler calls of the most recent callback, in order
    cb,           \* the most recent callback
    hist,         \* history: thread -> the span callbacks delivered there, in order
    ncalls,       \* number of span callbacks delivered
    event,        \* the fields of the event being recorded, in field-set order
    clamp,        \* adjust_stack_depth: the build, the requested depth, the results
    heap          \* ProfiledAllocator: the inner allocator, the profiler's memory events, the calls in flight

vars == <<stack, stack_depth, frames, diag, last, cb, hist, ncalls, event, clamp, heap>>

----------------------------------------------------------------------------
(* Bounds of the exploration *)

MaxCallbacks == 4

Threads == {"T1", "T2"}
\* correlation ids are only ever compared for equality
SpanIds == {1, 2}

\* Option values: None, Some(x)
None == <<>>
Some(x) == <<x>>
Unwrap(o) == o[1]

\* TracyLayer::new sets 64; with_stackdepth(0) disables stack collection.
DefaultStackDepth == 64
StackDepths == {0, DefaultStackDepth}

\* What ctx.span(id) resolves to: the span's metadata and formatted fields,
\* or None when the subscriber has no data for the id.
SpanDatas ==
    { [file |-> Some("main.rs"), line |-> Some(7), fields |-> Some("a=1")],
      [file |-> None, line |-> None, fields |-> None] }
Lookups == {Some(d) : d \in SpanDatas} \cup {None}

----------------------------------------------------------------------------
(* Small helpers *)

Front(s) == SubSeq(s, 1, Len(s) - 1)
Back(s) == s[Len(s)]

----------------------------------------------------------------------------
(* The profiler calls the layer makes (tracy_client, external) *)

SpanNew(h, name, file, line, depth) ==
    [op |-> "Span::new", span |-> h, name |-> name, category |-> "",
     file |-> file, line |-> line, depth |-> depth]
SpanDrop(h) == [op |-> "drop", span |-> h]
ColorMessage(text, depth) ==
    [op |-> "color_message", text |-> text, rgba |-> "FF000000", depth |-> depth]
Message(text, depth) == [op |-> "message", text |-> text, depth |-> depth]
FinishContinuousFrame == [op |-> "finish_continuous_frame"]

OutOfOrderText == "Tracing spans exited out of order! Trace may not be accurate for this span stack."
EmptyStackText == "Exiting a tracing span, but got nothing on the tracy span stack!"
TruncatedText == "Message for the previous event was too long, truncated"

IsColor(c, text) == c.op = "color_message" /\ c.text = text
CountOp(calls, op) == Cardinality({i \in DOMAIN calls : calls[i].op = op})
CountColor(calls, text) == Cardinality({i \in DOMAIN calls : IsColor(calls[i], text)})

\* The profiler's view after a callback on thread t for span id made `calls`:
\* Span::new opens a frame, dropping the Span ends it.
RECURSIVE ProfilerFrames(_, _, _, _)
ProfilerFrames(fs, calls, t, id) ==
    IF calls = <<>> THEN fs
    ELSE LET c == Head(calls)
             next == CASE c.op = "Span::new" ->
                              Append(fs, [thread |-> t, id |-> id, ends |-> 0])
                       [] c.op = "drop" -> [fs EXCEPT ![c.span].ends = @ + 1]
                       [] OTHER -> fs
         IN ProfilerFrames(next, Tail(calls), t, id)

ProfilerDiag(d, calls, t) ==
    [d EXCEPT ![t] = [empty |-> @.empty + CountColor(calls, EmptyStackText),
                      order |-> @.order + CountColor(calls, OutOfOrderText)]]

----------------------------------------------------------------------------
(* State after construction: every thread-local stack is empty *)

\* no depth is being clamped, no allocator is installed
NoClamp == [pc |-> "none"]
NoHeap == [pc |-> "none"]

Init ==
    /\ stack = [t \in Threads |-> <<>>]
    /\ stack_depth \in StackDepths
    /\ frames = <<>>
    /\ diag = [t \in Threads |-> [empty |-> 0, order |-> 0]]
    /\ last = <<>>
    /\ cb = [op |-> "none"]
    /\ hist = [t \in Threads |-> <<>>]
    /\ ncalls = 0
    /\ event = <<>>
    /\ clamp = NoClamp
    /\ heap = NoHeap

\* thread_local! TRACY_SPAN_STACK: a callback running on thread t uses t's own stack
SharedStack(t) == "T1"
TRACY_SPAN_STACK(t) == t

----------------------------------------------------------------------------
(* Layer::on_enter *)

\* metadata.file().unwrap_or(..), metadata.line().unwrap_or(0)
FileOf(data) == IF data.file = None THEN "<error: not available>" ELSE Unwrap(data.file)
LineOf(data) == IF data.line = None THEN 0 ELSE Unwrap(data.line)
\* the frame's display name: "name: fields" when formatted fields are stored
NameOf(data) ==
    IF data.fields = None THEN <<"span">> ELSE <<"span", ": ", Unwrap(data.fields)>>

\* s.borrow_mut().push_back((Span::new(..), id.into_u64()))
PushFront(s, h, id) == <<[span |-> h, id |-> id]>> \o s
push_back(s, h, id) == Append(s, [span |-> h, id |-> id])

\* if let Some(span_data) = ctx.span(id) { .. Span::new(..) .. }
EnterCallsNeedsFile(span_data, h, depth) ==
    IF span_data # None /\ Unwrap(span_data).file # None
    THEN LET data == Unwrap(span_data) IN
         <<SpanNew(h, NameOf(data), FileOf(data), LineOf(data), depth)>>
    ELSE <<>>
EnterCalls(span_data, h, depth) ==
    IF span_data # None
    THEN LET data == Unwrap(span_data) IN
         <<SpanNew(h, NameOf(data), FileOf(data), LineOf(data), depth)>>
    ELSE <<>>

on_enter(t, id, span_data) ==
    LET s == TRACY_SPAN_STACK(t)
        h == Len(frames) + 1
        calls == EnterCalls(span_data, h, stack_depth)
    IN
    /\ ncalls < MaxCallbacks
    /\ ncalls' = ncalls + 1
    /\ stack' = IF span_data # None THEN [stack EXCEPT ![s] = push_back(@, h, id)] ELSE stack
    /\ last' = calls
    /\ frames' = ProfilerFrames(frames, calls, t, id)
    /\ diag' = ProfilerDiag(diag, calls, t)
    /\ cb' = [op |-> "on_enter", thread |-> t, id |-> id, span_data |-> span_data]
    /\ hist' = [hist EXCEPT ![t] = Append(@, [op |-> "enter", id |-> id, found |-> span_data # None])]
    /\ UNCHANGED <<stack_depth, event, clamp, heap>>

----------------------------------------------------------------------------
(* Layer::on_exit *)

\* s.borrow_mut().pop_back(): the entry removed, if any, and what stays
PopFront(s) ==
    IF s = <<>> THEN [entry |-> None, rest |-> s]
    ELSE [entry |-> Some(Head(s)), rest |-> Tail(s)]
pop_back(s) ==
    IF s = <<>> THEN [entry |-> None, rest |-> s]
    ELSE [entry |-> Some(Back(s)), rest |-> Front(s)]

\* if id.into_u64() != span_id
IdEquals(id, span_id) == id = span_id
IdDiffers(id, span_id) == id # span_id

\* the profiler calls of on_exit, given what pop_back returned
ExitCallsSilentWhenEmpty(id, popped, depth) ==
    IF popped # None
    THEN (IF IdDiffers(id, Unwrap(popped).id)
          THEN <<ColorMessage(OutOfOrderText, depth)>> ELSE <<>>)
         \o <<SpanDrop(Unwrap(popped).span)>>
    ELSE <<>>
ExitCallsKeepOnMismatch(id, popped, depth) ==
    IF popped # None
    THEN IF IdDiffers(id, Unwrap(popped).id)
         THEN <<ColorMessage(OutOfOrderText, depth)>>
         ELSE <<SpanDrop(Unwrap(popped).span)>>
    ELSE <<ColorMessage(EmptyStackText, depth)>>
ExitCallsSilentOnMismatch(id, popped, depth) ==
    IF popped # None
    THEN <<SpanDrop(Unwrap(popped).span)>>
    ELSE <<ColorMessage(EmptyStackText, depth)>>
ExitCallsDropFirst(id, popped, depth) ==
    IF popped # None
    THEN <<SpanDrop(Unwrap(popped).span)>>
         \o (IF IdDiffers(id, Unwrap(popped).id)
             THEN <<ColorMessage(OutOfOrderText, depth)>> ELSE <<>>)
    ELSE <<ColorMessage(EmptyStackText, depth)>>
ExitCalls(id, popped, depth) ==
    IF popped # None
    THEN (IF IdDiffers(id, Unwrap(popped).id)
          THEN <<ColorMessage(OutOfOrderText, depth)>> ELSE <<>>)
         \o <<SpanDrop(Unwrap(popped).span)>>
    ELSE <<ColorMessage(EmptyStackText, depth)>>

on_exit(t, id) ==
    LET s == TRACY_SPAN_STACK(t)
        popped == pop_back(stack[s])
        calls == ExitCalls(id, popped.entry, stack_depth)
    IN
    /\ ncalls < MaxCallbacks
    /\ ncalls' = ncalls + 1
    /\ stack' = [stack EXCEPT ![s] = popped.rest]
    /\ last' = calls
    /\ frames' = ProfilerFrames(frames, calls, t, id)
    /\ diag' = ProfilerDiag(diag, calls, t)
    /\ cb' = [op |-> "on_exit", thread |-> t, id |-> id]
    /\ hist' = [hist EXCEPT ![t] = Append(@, [op |-> "exit", id |-> id, found |-> TRUE])]
    /\ UNCHANGED <<stack_depth, event, clamp, heap>>

----------------------------------------------------------------------------
Enter == \E t \in Threads, id \in SpanIds, span_data \in Lookups : on_enter(t, id, span_data)
Exit == \E t \in Threads, id \in SpanIds : on_exit(t, id)

Next == Enter \/ Exit

Spec == Init /\ [][Next]_vars

----------------------------------------------------------------------------
(* What the instrumentation framework delivered, read off the history *)

RECURSIVE LastIndexOf(_, _)
LastIndexOf(s, x) ==
    IF s = <<>> THEN 0
    ELSE IF Back(s) = x THEN Len(s) ELSE LastIndexOf(Front(s), x)

RemoveAt(s, i) == SubSeq(s, 1, i - 1) \o SubSeq(s, i + 1, Len(s))

\* the ids entered on a thread and not yet exited there, oldest first
RECURSIVE ActiveOf(_)
ActiveOf(h) ==
    IF h = <<>> THEN <<>>
    ELSE LET a == ActiveOf(Front(h))
             e == Back(h)
             i == LastIndexOf(a, e.id)
         IN IF e.op = "enter" THEN Append(a, e.id)
            ELSE IF i = 0 THEN a ELSE RemoveAt(a, i)

\* every exit names the most recently entered span that has not yet exited
ProperlyNested(h) ==
    \A k \in 1..Len(h) :
        h[k].op = "exit" =>
            LET a == ActiveOf(SubSeq(h, 1, k - 1)) IN a # <<>> /\ Back(a) = h[k].id

\* every span-entered notification found its span data
AllFound(h) == \A k \in 1..Len(h) : h[k].op = "enter" => h[k].found

NumOf(h, op) == Cardinality({k \in 1..Len(h) : h[k].op = op})

Ids(s) == [i \in 1..Len(s) |-> s[i].id]
FramesOn(t) == {h \in 1..Len(frames) : frames[h].thread = t}
ClosedOn(t) == {h \in FramesOn(t) : frames[h].ends > 0}
NumColor(calls) == CountOp(calls, "color_message")
NumDrops(calls) == CountOp(calls, "drop")

----------------------------------------------------------------------------
(* Claims about the span callbacks *)

NestedOutcome(t) ==
    /\ diag[t].empty = 0 /\ diag[t].order = 0
    /\ Cardinality(FramesOn(t)) = NumOf(hist[t], "enter")
    /\ Cardinality(ClosedOn(t)) = NumOf(hist[t], "exit")
    /\ \A h \in FramesOn(t) : frames[h].ends <= 1
    /\ Ids(stack[t]) = ActiveOf(hist[t])
    /\ (cb.op = "on_enter" /\ cb.thread = t) =>
           /\ Len(last) = 1 /\ last[1].op = "Span::new"
           /\ stack[t] # <<>> /\ Back(stack[t]) = [span |-> last[1].span, id |-> cb.id]
    /\ (cb.op = "on_exit" /\ cb.thread = t) =>
           \E h \in FramesOn(t) : last = <<SpanDrop(h)>> /\ frames[h].id = cb.id
    /\ ActiveOf(hist[t]) = <<>> => stack[t] = <<>>

\* C1 as stated: on every thread whose callbacks so far are properly nested,
\* no diagnostic was emitted, every enter opened exactly one frame, every exit
\* closed the frame opened for the same id, and the stack is empty once every
\* entered span has exited.
C1_AsStated == \A t \in Threads : ProperlyNested(hist[t]) => NestedOutcome(t)

\* C1 (amended): the same, for threads on which every span-entered
\* notification found its span data (ctx.span(id) returned Some).
C1_NestedNoDiagnostic ==
    \A t \in Threads : (ProperlyNested(hist[t]) /\ AllFound(hist[t])) => NestedOutcome(t)

C1_Witness ==
    /\ hist["T1"] = << [op |-> "enter", id |-> 1, found |-> TRUE],
                       [op |-> "enter", id |-> 2, found |-> TRUE],
                       [op |-> "exit", id |-> 2, found |-> TRUE],
                       [op |-> "exit", id |-> 1, found |-> TRUE] >>
    /\ stack["T1"] = <<>>
    /\ Len(frames) = 2 /\ frames[1].ends = 1 /\ frames[2].ends = 1
    /\ last = <<SpanDrop(1)>>

\* enter(A), enter(B), exit(A), each enter having pushed its entry
OutOfOrderExit(h, A, B) ==
    /\ Len(h) = 3
    /\ h[1] = [op |-> "enter", id |-> A, found |-> TRUE]
    /\ h[2] = [op |-> "enter", id |-> B, found |-> TRUE]
    /\ h[3] = [op |-> "exit", id |-> A, found |-> TRUE]

OutOfOrderOutcome(t, left, closed) ==
    /\ diag[t].order = 1 /\ diag[t].empty = 0
    /\ Ids(stack[t]) = <<left>>
    /\ \E h \in FramesOn(t) :
           /\ ClosedOn(t) = {h}
           /\ frames[h].id = closed /\ frames[h].ends = 1
           /\ \A i \in DOMAIN stack[t] : stack[t][i].span # h

\* C2 as stated: after enter(A), enter(B), exit(A) with A # B on one thread,
\* one out-of-order diagnostic was emitted, B's frame is the one frame closed,
\* and the stack holds only B's entry.
C2_AsStated ==
    \A t \in Threads, A \in SpanIds, B \in SpanIds :
        (A # B /\ OutOfOrderExit(hist[t], A, B)) => OutOfOrderOutcome(t, B, B)

\* C2 (amended): after enter(A), enter(B), exit(A) with A # B on one thread,
\* one out-of-order diagnostic was emitted, B's frame is the one frame closed,
\* and the stack holds only A's entry.
C2_OutOfOrderLeavesFirst ==
    \A t \in Threads, A \in SpanIds, B \in SpanIds :
        (A # B /\ OutOfOrderExit(hist[t], A, B)) => OutOfOrderOutcome(t, A, B)

C2_Witness ==
    /\ OutOfOrderExit(hist["T1"], 1, 2)
    /\ stack["T1"] = <<[span |-> 1, id |-> 1]>>
    /\ frames[2].ends = 1 /\ frames[2].id = 2
    /\ last = <<ColorMessage(OutOfOrderText, stack_depth), SpanDrop(2)>>

\* C3: a span-exited notification on a thread whose stack is empty emits
\* exactly one "nothing on the stack" colored diagnostic and nothing else,
\* closes no frame and changes no stack.
C3_ExitOnEmptyStack ==
    [][\A t \in Threads :
          (cb'.op = "on_exit" /\ cb'.thread = t /\ stack[t] = <<>>) =>
              /\ last' = <<ColorMessage(EmptyStackText, stack_depth)>>
              /\ frames' = frames
              /\ stack' = stack
              /\ diag' = [diag EXCEPT ![t].empty = @ + 1]]_vars

C3_Witness ==
    /\ cb.op = "on_exit" /\ cb.thread = "T2"
    /\ hist["T2"] = <<[op |-> "exit", id |-> 1, found |-> TRUE]>>
    /\ stack["T2"] = <<>>
    /\ stack["T1"] # <<>>
    /\ diag["T2"] = [empty |-> 1, order |-> 0]
    /\ last = <<ColorMessage(EmptyStackText, stack_depth)>>

\* the stack entries, over all threads, that hold handle h
Holders(h) == {<<t, i>> \in Threads \X (1..MaxCallbacks + 1) :
                   i <= Len(stack[t]) /\ stack[t][i].span = h}
NumEntries == LET total[S \in SUBSET Threads] ==
                      IF S = {} THEN 0
                      ELSE LET t == CHOOSE x \in S : TRUE
                           IN Len(stack[t]) + total[S \ {t}]
              IN total[Threads]

\* C4: every frame opened is either held by exactly one stack entry and not
\* closed, or held by none and closed exactly once; every entry holds an
\* opened frame; opened = closed + entries on all stacks.
C4_FramesClosedOnce ==
    /\ \A h \in 1..Len(frames) :
           /\ frames[h].ends \in {0, 1}
           /\ Cardinality(Holders(h)) = 1 - frames[h].ends
    /\ \A t \in Threads : \A i \in DOMAIN stack[t] : stack[t][i].span \in 1..Len(frames)
    /\ Len(frames) = Cardinality({h \in 1..Len(frames) : frames[h].ends = 1}) + NumEntries

C4_Witness ==
    /\ Len(frames) = 3
    /\ frames[1].ends = 0 /\ frames[2].ends = 1 /\ frames[3].ends = 0
    /\ frames[2].thread = "T1" /\ diag["T1"].order = 1
    /\ frames[3].thread = "T2" /\ Len(stack["T2"]) = 1

\* C5: a span-exited notification emits exactly one diagnostic when the
\* calling thread's stack is empty or its top entry has another id, and none
\* when the top entry has the id being exited; span-entered emits none.
C5_DiagnosticIffMitigation ==
    [][\A t \in Threads :
          /\ (cb'.op = "on_exit" /\ cb'.thread = t) =>
                 /\ NumColor(last') =
                        IF stack[t] = <<>> \/ Back(stack[t]).id # cb'.id THEN 1 ELSE 0
                 /\ diag'[t].empty + diag'[t].order
                        = diag[t].empty + diag[t].order + NumColor(last')
          /\ (cb'.op = "on_enter" /\ cb'.thread = t) =>
                 NumColor(last') = 0 /\ diag' = diag]_vars

C5_Witness ==
    /\ diag["T1"] = [empty |-> 0, order |-> 1]
    /\ cb = [op |-> "on_exit", thread |-> "T1", id |-> 1]
    /\ last = <<SpanDrop(1)>>
    /\ Len(hist["T1"]) = 4

\* C6: a callback on thread t leaves every other thread's stack unchanged and
\* pushes onto or pops from t's own stack only; an exit on a thread whose own
\* stack is empty emits the empty-stack diagnostic and closes no frame, even
\* when another thread's stack holds an entry for the exited span.
C6_ThreadConfined ==
    [][\A t \in Threads :
          (cb'.op \in {"on_enter", "on_exit"} /\ cb'.thread = t) =>
              /\ \A u \in Threads \ {t} : stack'[u] = stack[u]
              /\ \/ stack'[t] = stack[t]
                 \/ stack'[t] # <<>> /\ Front(stack'[t]) = stack[t]
                 \/ stack[t] # <<>> /\ stack'[t] = Front(stack[t])
              /\ (cb'.op = "on_exit" /\ stack[t] = <<>>) =>
                     /\ CountColor(last', EmptyStackText) = 1
                     /\ NumDrops(last') = 0
                     /\ frames' = frames]_vars

C6_Witness ==
    /\ hist["T1"] = <<[op |-> "enter", id |-> 1, found |-> TRUE]>>
    /\ hist["T2"] = <<[op |-> "exit", id |-> 1, found |-> TRUE]>>
    /\ cb = [op |-> "on_exit", thread |-> "T2", id |-> 1]
    /\ stack["T1"] = <<[span |-> 1, id |-> 1]>>
    /\ frames[1].ends = 0
    /\ diag["T2"].empty = 1

\* the frames opened on thread t and not ended
OpenOn(t) == {h \in FramesOn(t) : frames[h].ends = 0}
Spans(s) == [i \in 1..Len(s) |-> s[i].span]
Increasing(q) == \A i \in 1..Len(q) - 1 : q[i] < q[i + 1]
Max(S) == CHOOSE x \in S : \A y \in S : y <= x

\* each thread's stack holds exactly its open frames, oldest first
StackMirrorsOpenFrames ==
    \A t \in Threads :
        /\ Cardinality(OpenOn(t)) = Len(stack[t])
        /\ {stack[t][i].span : i \in DOMAIN stack[t]} = OpenOn(t)
        /\ Increasing(Spans(stack[t]))

\* C12: the frame ended by a span-exited notification is the most recently
\* opened frame of that thread that is still open, whatever id is exited; the
\* open frames of a thread are exactly the entries of its stack, in the order
\* the spans were entered.
C12_FramesClosedLifo ==
    [][/\ \A t \in Threads :
              (cb'.op = "on_exit" /\ cb'.thread = t) =>
                  IF OpenOn(t) = {}
                  THEN NumDrops(last') = 0
                  ELSE /\ NumDrops(last') = 1
                       /\ last'[Len(last')] = SpanDrop(Max(OpenOn(t)))
       /\ StackMirrorsOpenFrames']_vars

C12_Witness ==
    /\ cb = [op |-> "on_exit", thread |-> "T2", id |-> 2]
    /\ Len(frames) = 3
    /\ frames[1].id = 2 /\ frames[2].id = 1 /\ frames[3].id = 1
    /\ frames[1].ends = 0 /\ frames[2].ends = 0 /\ frames[3].ends = 1
    /\ Spans(stack["T2"]) = <<1, 2>>

\* C13: when span-exited finds a top entry with another id, the out-of-order
\* diagnostic is sent first and the top entry's frame is ended after it; the
\* stack loses its top entry and nothing else, also when an entry with the
\* exited id lies deeper in the stack.
C13_MismatchPopsTop ==
    [][\A t \in Threads :
          (/\ cb'.op = "on_exit" /\ cb'.thread = t
           /\ stack[t] # <<>> /\ Back(stack[t]).id # cb'.id) =>
              /\ last' = << ColorMessage(OutOfOrderText, stack_depth),
                            SpanDrop(Back(stack[t]).span) >>
              /\ stack' = [stack EXCEPT ![t] = Front(stack[t])]
              /\ frames' = [frames EXCEPT ![Back(stack[t]).span].ends = 1]]_vars

\* the exited id lies below the top: the top is popped, the match stays
C13_Witness ==
    /\ cb = [op |-> "on_exit", thread |-> "T1", id |-> 2]
    /\ hist["T1"] = << [op |-> "enter", id |-> 2, found |-> TRUE],
                       [op |-> "enter", id |-> 1, found |-> TRUE],
                       [op |-> "exit", id |-> 2, found |-> TRUE] >>
    /\ stack["T1"] = <<[span |-> 1, id |-> 2]>>
    /\ last = <<ColorMessage(OutOfOrderText, stack_depth), SpanDrop(2)>>

\* one frame opened and its entry pushed on top of thread t's stack
EnterPushes(t) ==
    LET h == Len(frames) + 1 IN
    /\ Len(last') = 1 /\ last'[1].op = "Span::new" /\ last'[1].span = h
    /\ Len(frames') = h /\ frames'[h].ends = 0
    /\ \A g \in 1..Len(frames) : frames'[g] = frames[g]
    /\ stack' = [stack EXCEPT ![t] = Append(stack[t], [span |-> h, id |-> cb'.id])]
    /\ cb'.span_data # None =>
           /\ Unwrap(cb'.span_data).file = None => last'[1].file = "<error: not available>"
           /\ Unwrap(cb'.span_data).line = None => last'[1].line = 0

\* C14 as stated: every span-entered notification opens exactly one frame and
\* pushes exactly one entry on top of the calling thread's stack, placeholders
\* standing in for missing file and line.
C14_AsStated ==
    [][\A t \in Threads : (cb'.op = "on_enter" /\ cb'.thread = t) => EnterPushes(t)]_vars

\* C14 (amended): a span-entered notification whose span data is found does
\* so; one whose lookup finds nothing opens no frame, pushes nothing and
\* makes no profiler call.
C14_EnterPushesWhenFound ==
    [][\A t \in Threads :
          (cb'.op = "on_enter" /\ cb'.thread = t) =>
              IF cb'.span_data # None THEN EnterPushes(t)
              ELSE last' = <<>> /\ stack' = stack /\ frames' = frames /\ diag' = diag]_vars

\* file and line missing: the frame is opened with the placeholders
C14_Witness ==
    /\ cb.op = "on_enter" /\ cb.thread = "T1"
    /\ cb.span_data = Some([file |-> None, line |-> None, fields |-> None])
    /\ Len(stack["T1"]) = 2
    /\ last = <<SpanNew(2, <<"span">>, "<error: not available>", 0, stack_depth)>>

\* every exit names a span entered on this thread and not yet exited
ExitsFollowEnters(h) ==
    \A k \in 1..Len(h) :
        h[k].op = "exit" => LastIndexOf(ActiveOf(SubSeq(h, 1, k - 1)), h[k].id) # 0

\* the ids on a stack that is pushed by every enter and popped by every exit
RECURSIVE ReplayIds(_)
ReplayIds(h) ==
    IF h = <<>> THEN <<>>
    ELSE LET r == ReplayIds(Front(h)) IN
         IF Back(h).op = "enter" THEN Append(r, Back(h).id)
         ELSE IF r = <<>> THEN r ELSE Front(r)

\* the exits whose id differed from the id on top at that moment
Mismatches(h) ==
    Cardinality({k \in 1..Len(h) :
                    /\ h[k].op = "exit"
                    /\ LET r == ReplayIds(SubSeq(h, 1, k - 1)) IN r # <<>> /\ Back(r) # h[k].id})

Occurrences(q, x) == Cardinality({i \in 1..Len(q) : q[i] = x})

AnyOrderOutcome(t) ==
    /\ diag[t].empty = 0
    /\ diag[t].order = Mismatches(hist[t])
    /\ ActiveOf(hist[t]) = <<>> =>
           (stack[t] = <<>> /\ \A h \in FramesOn(t) : frames[h].ends = 1)

\* C17 as stated: on a thread where every enter pushed and every exit names a
\* span entered there and not yet exited, no exit found the stack empty, the
\* out-of-order diagnostics number the exits whose id differed from the top,
\* the stack is empty and every frame ended once every span has exited, and
\* each span not yet exited still has its entry, with an open frame, on the stack.
C17_AsStated ==
    \A t \in Threads :
        (AllFound(hist[t]) /\ ExitsFollowEnters(hist[t])) =>
            /\ AnyOrderOutcome(t)
            /\ \A id \in SpanIds :
                   Occurrences(Ids(stack[t]), id) = Occurrences(ActiveOf(hist[t]), id)
            /\ \A i \in DOMAIN stack[t] : frames[stack[t][i].span].ends = 0

\* C17 (amended): the same, except that the spans not yet exited leave as
\* many entries, each with an open frame, as there are such spans; after an
\* out-of-order exit the entries left are not those of the spans still active.
C17_AnyOrderExits ==
    \A t \in Threads :
        (AllFound(hist[t]) /\ ExitsFollowEnters(hist[t])) =>
            /\ AnyOrderOutcome(t)
            /\ Len(stack[t]) = Len(ActiveOf(hist[t]))
            /\ Cardinality(OpenOn(t)) = Len(ActiveOf(hist[t]))
            /\ \A i \in DOMAIN stack[t] : frames[stack[t][i].span].ends = 0

\* enter(1), enter(2), exit(1), exit(2): two diagnostics, everything closed
C17_Witness ==
    /\ hist["T1"] = << [op |-> "enter", id |-> 1, found |-> TRUE],
                       [op |-> "enter", id |-> 2, found |-> TRUE],
                       [op |-> "exit", id |-> 1, found |-> TRUE],
                       [op |-> "exit", id |-> 2, found |-> TRUE] >>
    /\ stack["T1"] = <<>>
    /\ diag["T1"] = [empty |-> 0, order |-> 2]
    /\ frames[1].ends = 1 /\ frames[2].ends = 1

----------------------------------------------------------------------------
(* Text.  A String is modelled as a sequence of runs [c, n]: the character *)
(* c repeated n >= 1 times.  Its bytes are the UTF-8 encoding of the       *)
(* characters, so byte lengths and character boundaries are those of the   *)
(* real string while texts of 64 KiB stay small values.                    *)

\* Characters outside ASCII are named by their code point.
Utf8Len(c) ==
    CASE c = "U+00E9" -> 2
      [] c = "U+20AC" -> 3
      [] c = "U+1F600" -> 4
      [] OTHER -> 1

Lit(chars) == [i \in 1..Len(chars) |-> [c |-> chars[i], n |-> 1]]
Repeat(c, n) == IF n = 0 THEN <<>> ELSE <<[c |-> c, n |-> n]>>

\* str::len: the length in bytes
RECURSIVE ByteLen(_)
ByteLen(text) ==
    IF text = <<>> THEN 0
    ELSE Utf8Len(Head(text).c) * Head(text).n + ByteLen(Tail(text))

\* whether the byte at 0-based index (below the length) is the first byte of
\* a character rather than a continuation byte
RECURSIVE IsLeadByte(_, _)
IsLeadByte(text, index) ==
    LET w == Utf8Len(Head(text).c)
        run == w * Head(text).n
    IN IF index < run THEN index % w = 0 ELSE IsLeadByte(Tail(text), index - run)

\* str::is_char_boundary
is_char_boundary(text, index) ==
    IF index = 0 THEN TRUE
    ELSE IF index >= ByteLen(text) THEN index = ByteLen(text)
    ELSE IsLeadByte(text, index)

\* the characters of text that lie wholly within its first `index` bytes
RECURSIVE Truncated(_, _)
Truncated(text, index) ==
    IF index = 0 \/ text = <<>> THEN <<>>
    ELSE LET w == Utf8Len(Head(text).c)
             run == w * Head(text).n
         IN IF index >= run
            THEN <<Head(text)>> \o Truncated(Tail(text), index - run)
            ELSE Repeat(Head(text).c, index \div w)

\* &text[..index]: Some(prefix), or None where str indexing panics because
\* index is beyond the end or not on a character boundary
SliceTo(text, index) ==
    IF index <= ByteLen(text) /\ is_char_boundary(text, index)
    THEN Some(Truncated(text, index))
    ELSE None

----------------------------------------------------------------------------
(* Field values and their Debug rendering ({:?}) *)

BoolValue(b) == [kind |-> "bool", b |-> b, n |-> 0, s |-> <<>>]
IntValue(n) == [kind |-> "i64", b |-> FALSE, n |-> n, s |-> <<>>]
StrValue(s) == [kind |-> "str", b |-> FALSE, n |-> 0, s |-> s]

DigitChar(d) == <<"0", "1", "2", "3", "4", "5", "6", "7", "8", "9">>[d + 1]

RECURSIVE Digits(_)
Digits(n) == IF n < 10 THEN <<DigitChar(n)>> ELSE Append(Digits(n \div 10), DigitChar(n % 10))

\* <str as Debug>: quoted, with quotes and backslashes escaped
RECURSIVE EscapeDebug(_)
EscapeDebug(text) ==
    IF text = <<>> THEN <<>>
    ELSE LET r == Head(text) IN
         IF r.c \in {"\"", "\\"}
         THEN Lit(<<"\\", r.c>>)
              \o EscapeDebug(Repeat(r.c, r.n - 1) \o Tail(text))
         ELSE <<r>> \o EscapeDebug(Tail(text))

DebugFmt(value) ==
    CASE value.kind = "bool" -> Lit(IF value.b THEN <<"t", "r", "u", "e">>
                                              ELSE <<"f", "a", "l", "s", "e">>)
      [] value.kind = "i64" -> Lit(IF value.n < 0 THEN <<"-">> \o Digits(-value.n)
                                                 ELSE Digits(value.n))
      [] value.kind = "str" -> Lit(<<"\"">>) \o EscapeDebug(value.s) \o Lit(<<"\"">>)

----------------------------------------------------------------------------
(* TracyEventFieldVisitor *)

FrameMarkName == <<"t", "r", "a", "c", "y", ".", "f", "r", "a", "m", "e", "_", "m", "a", "r", "k">>

NewVisitor == [dest |-> <<>>, first |-> TRUE, frame_mark |-> FALSE]

record_debugAlwaysComma(v, field) ==
    [v EXCEPT !.dest = @ \o Lit(<<",", " ">>) \o Lit(field.name)
                         \o Lit(<<" ", "=", " ">>) \o DebugFmt(field.value),
              !.first = FALSE]
\* write!(dest, "{} = {:?}", ..) the first time, write!(dest, ", {} = {:?}", ..) after
record_debug(v, field) ==
    IF v.first
    THEN [v EXCEPT !.dest = @ \o Lit(field.name) \o Lit(<<" ", "=", " ">>) \o DebugFmt(field.value),
                   !.first = FALSE]
    ELSE [v EXCEPT !.dest = @ \o Lit(<<",", " ">>) \o Lit(field.name)
                                \o Lit(<<" ", "=", " ">>) \o DebugFmt(field.value)]

record_boolAnyValue(v, field) ==
    IF field.name = FrameMarkName
    THEN [v EXCEPT !.frame_mark = TRUE]
    ELSE record_debug(v, field)
record_bool(v, field) ==
    IF field.value.b /\ field.name = FrameMarkName
    THEN [v EXCEPT !.frame_mark = TRUE]
    ELSE record_debug(v, field)

\* Value::record dispatches on the value's type; every Visit method the
\* visitor does not override forwards to record_debug
Record(v, field) ==
    IF field.value.kind = "bool" THEN record_bool(v, field) ELSE record_debug(v, field)

\* event.record(&mut visitor): the fields in field-set order
RECURSIVE EventRecord(_, _)
EventRecord(v, fields) ==
    IF fields = <<>> THEN v ELSE EventRecord(Record(v, Head(fields)), Tail(fields))

----------------------------------------------------------------------------
(* Layer::on_event *)

U16Max == 65535
\* usize::from(u16::max_value()) - 1
MaxLen == U16Max - 1

\* while !dest.is_char_boundary(max_len) { max_len -= 1 }
CutPointNoSearch(dest, max_len) == max_len
RECURSIVE CutPoint(_, _)
CutPoint(dest, max_len) ==
    IF is_char_boundary(dest, max_len) THEN max_len ELSE CutPoint(dest, max_len - 1)

Panic == [op |-> "panic"]

\* message(&dest[..max_len], ..); color_message(..)
TruncatedCalls(dest, depth) ==
    LET text == SliceTo(dest, CutPoint(dest, MaxLen)) IN
    IF text = None THEN <<Panic>>
    ELSE <<Message(Unwrap(text), depth), ColorMessage(TruncatedText, depth)>>

\* if dest.len() >= max_len { .. } else { message(&dest, ..) }
MessageCallsStrictlyAbove(dest, depth) ==
    IF ByteLen(dest) > MaxLen THEN TruncatedCalls(dest, depth) ELSE <<Message(dest, depth)>>
MessageCalls(dest, depth) ==
    IF ByteLen(dest) >= MaxLen THEN TruncatedCalls(dest, depth) ELSE <<Message(dest, depth)>>

\* the profiler calls of one event, in order
EventCallsAlwaysMessage(visitor, depth) ==
    MessageCalls(visitor.dest, depth)
    \o (IF visitor.frame_mark THEN <<FinishContinuousFrame>> ELSE <<>>)
EventCalls(visitor, depth) ==
    LET sent == IF ~visitor.first THEN MessageCalls(visitor.dest, depth) ELSE <<>> IN
    IF sent # <<>> /\ Back(sent) = Panic THEN sent
    ELSE sent \o (IF visitor.frame_mark THEN <<FinishContinuousFrame>> ELSE <<>>)

on_event ==
    LET visitor == EventRecord(NewVisitor, event) IN
    /\ cb.op = "none"
    /\ cb' = [op |-> "on_event", visitor |-> visitor]
    /\ last' = EventCalls(visitor, stack_depth)
    /\ UNCHANGED <<stack, stack_depth, frames, diag, hist, ncalls, event, clamp, heap>>

----------------------------------------------------------------------------
(* The events explored *)

MaxFields == 2
Slack == 1

FieldNames == { <<"x">>, <<"y">>, FrameMarkName }

\* the rendering of one field named x with a string value: x = "..."
Overhead == ByteLen(Lit(<<"x", " ", "=", " ", "\"", "\"">>))
LongChars == {"a", "U+00E9", "U+20AC", "U+1F600"}
\* strings whose rendering ends just below, at and above MaxLen
LongStrings ==
    { Repeat(c, (MaxLen - Overhead) \div Utf8Len(c) + k) : c \in LongChars, k \in -1..Slack }
ShortStrings == { Lit(<<"s">>), Lit(<<"a", "\"", "U+00E9">>) }

ShortValues ==
    {BoolValue(b) : b \in BOOLEAN} \cup {IntValue(1)} \cup {StrValue(s) : s \in ShortStrings}
LongValues == {StrValue(s) : s \in LongStrings}

ShortFields == [name : FieldNames, value : ShortValues]
LongFields == [name : FieldNames, value : LongValues]

RECURSIVE SeqsUpTo(_, _)
SeqsUpTo(S, n) ==
    IF n = 0 THEN {<<>>}
    ELSE LET shorter == SeqsUpTo(S, n - 1) IN
         shorter \cup {Append(q, x) : q \in shorter, x \in S}

InsertAt(q, k, f) == SubSeq(q, 1, k) \o <<f>> \o SubSeq(q, k + 1, Len(q))

\* up to MaxFields fields, at most one of them long, at any position
Events ==
    SeqsUpTo(ShortFields, MaxFields)
    \cup { InsertAt(q[1], q[2], f) :
               q \in { p \in SeqsUpTo(ShortFields, MaxFields - 1) \X (0..MaxFields - 1) :
                           p[2] <= Len(p[1]) },
               f \in LongFields }

\* one event, drawn from Events, is recorded by a layer built by TracyLayer::new()
InitEvent ==
    /\ stack = [t \in Threads |-> <<>>]
    /\ stack_depth = DefaultStackDepth
    /\ frames = <<>>
    /\ diag = [t \in Threads |-> [empty |-> 0, order |-> 0]]
    /\ last = <<>>
    /\ cb = [op |-> "none"]
    /\ hist = [t \in Threads |-> <<>>]
    /\ ncalls = 0
    /\ event \in Events
    /\ clamp = NoClamp
    /\ heap = NoHeap

NextEvent == on_event

SpecEvent == InitEvent /\ [][NextEvent]_vars

----------------------------------------------------------------------------
(* Claims about on_event *)

\* the reserved frame marker: a boolean field named tracy.frame_mark, true
IsFrameMarker(f) == f.value.kind = "bool" /\ f.value.b /\ f.name = FrameMarkName

\* "name = debug-value" for each field in order, ", " between neighbours
RenderedField(f) == Lit(f.name) \o Lit(<<" ", "=", " ">>) \o DebugFmt(f.value)
RECURSIVE Joined(_)
Joined(fs) ==
    IF fs = <<>> THEN <<>>
    ELSE IF Len(fs) = 1 THEN RenderedField(fs[1])
    ELSE Joined(Front(fs)) \o Lit(<<",", " ">>) \o RenderedField(Back(fs))

NotMarker(f) == ~IsFrameMarker(f)
\* the text of the event: its fields other than the frame marker, joined
RenderedText == Joined(SelectSeq(event, NotMarker))
SomeFieldRendered == \E k \in DOMAIN event : ~IsFrameMarker(event[k])
HasMarker == \E k \in DOMAIN event : IsFrameMarker(event[k])

NumMessages(calls) == CountOp(calls, "message")
NumFrameEnds(calls) == CountOp(calls, "finish_continuous_frame")
Delivered == cb.op = "on_event"

\* C7: an event with at least one field, none the frame marker, whose
\* rendered text is shorter than MaxLen sends exactly one message, the fields
\* joined in order, and nothing else.
C7_JoinedInFieldOrder ==
    (Delivered /\ event # <<>> /\ ~HasMarker /\ ByteLen(Joined(event)) < MaxLen)
        => last = <<Message(Joined(event), stack_depth)>>

C7_Witness ==
    /\ Delivered
    /\ event = << [name |-> <<"x">>, value |-> IntValue(1)],
                  [name |-> <<"y">>, value |-> StrValue(Lit(<<"s">>))] >>
    /\ last = <<Message(Lit(<< "x", " ", "=", " ", "1", ",", " ",
                               "y", " ", "=", " ", "\"", "s", "\"" >>), stack_depth)>>

\* C8: an event sends a message iff one of its fields was rendered; an event
\* with no fields makes no profiler call; an event whose only field is the
\* frame marker sends no message and ends exactly one continuous frame.
C8_MessageIffRendered ==
    Delivered =>
        /\ NumMessages(last) >= 1 <=> SomeFieldRendered
        /\ event = <<>> => last = <<>>
        /\ (Len(event) = 1 /\ IsFrameMarker(event[1])) => last = <<FinishContinuousFrame>>

C8_Witness ==
    /\ Delivered
    /\ event = <<[name |-> FrameMarkName, value |-> BoolValue(TRUE)]>>
    /\ last = <<FinishContinuousFrame>>

\* a field named as the frame marker whose value is not boolean true
IsUnsetMarker(f) == f.name = FrameMarkName /\ ~IsFrameMarker(f)

\* C15: an event ends exactly one continuous frame iff one of its fields is
\* the boolean frame marker with value true, however many such fields it has,
\* and no frame otherwise; the marker is not rendered, a frame-marker field
\* with value false is rendered like any field; the frame end is the last
\* profiler call of the event, after the message when text was rendered.
C15_FrameMarkIndependentOfText ==
    Delivered =>
        /\ NumFrameEnds(last) = IF HasMarker THEN 1 ELSE 0
        /\ HasMarker =>
               /\ last[Len(last)] = FinishContinuousFrame
               /\ SomeFieldRendered =>
                      (Len(last) >= 2 /\ last[1].op = "message")
        /\ (SomeFieldRendered /\ ByteLen(RenderedText) < MaxLen) =>
               last[1] = Message(RenderedText, stack_depth)
        /\ \A k \in DOMAIN event :
               IsUnsetMarker(event[k]) =>
                   /\ NumMessages(last) >= 1
                   /\ (Len(event) = 1 /\ ByteLen(RenderedField(event[k])) < MaxLen) =>
                          last = <<Message(RenderedField(event[k]), stack_depth)>>

\* text and marker together: the message, then the frame end
C15_Witness ==
    /\ Delivered
    /\ event = << [name |-> <<"x">>, value |-> IntValue(1)],
                  [name |-> FrameMarkName, value |-> BoolValue(TRUE)] >>
    /\ last = << Message(Lit(<<"x", " ", "=", " ", "1">>), stack_depth),
                 FinishContinuousFrame >>

\* character-wise prefix of texts held as runs
RECURSIVE IsPrefix(_, _)
IsPrefix(m, d) ==
    IF m = <<>> THEN TRUE
    ELSE IF d = <<>> \/ Head(m).c # Head(d).c THEN FALSE
    ELSE IF Head(m).n = Head(d).n THEN IsPrefix(Tail(m), Tail(d))
    ELSE IF Head(m).n < Head(d).n
         THEN IsPrefix(Tail(m), <<[c |-> Head(d).c, n |-> Head(d).n - Head(m).n]>> \o Tail(d))
         ELSE IsPrefix(<<[c |-> Head(m).c, n |-> Head(m).n - Head(d).n]>> \o Tail(m), Tail(d))

\* the bytes of the first character of d that follows its prefix m
RECURSIVE NextCharLen(_, _)
NextCharLen(m, d) ==
    IF m = <<>> THEN Utf8Len(Head(d).c)
    ELSE IF Head(m).n = Head(d).n THEN NextCharLen(Tail(m), Tail(d))
    ELSE Utf8Len(Head(d).c)

\* m is the longest prefix of d, in whole characters, of at most max bytes
LongestPrefixWithin(m, d, max) ==
    /\ IsPrefix(m, d)
    /\ ByteLen(m) <= max
    /\ ByteLen(m) = ByteLen(d) \/ ByteLen(m) + NextCharLen(m, d) > max

\* the longest UTF-8 encoding of one character
MaxCharLen == Utf8Len("U+1F600")

\* C9: when the rendered text has MaxLen bytes or more, the message sent
\* carries its longest prefix of whole characters within MaxLen bytes, the
\* whole text when it has exactly MaxLen bytes; the cut point is found within
\* MaxCharLen - 1 steps down from MaxLen.
C9_TruncatedAtCharBoundary ==
    (Delivered /\ ByteLen(RenderedText) >= MaxLen) =>
        /\ last # <<>> /\ last[1].op = "message"
        /\ LongestPrefixWithin(last[1].text, RenderedText, MaxLen)
        /\ ByteLen(RenderedText) = MaxLen => last[1].text = RenderedText
        /\ MaxLen - ByteLen(last[1].text) <= MaxCharLen - 1

\* a text cut inside a run of 4-byte characters, 3 bytes below MaxLen
C9_Witness ==
    /\ Delivered
    /\ ByteLen(RenderedText) > MaxLen
    /\ last[1].op = "message"
    /\ ByteLen(last[1].text) = MaxLen - 3
    /\ Back(last[1].text).c = "U+1F600"

TruncationOutcome ==
    IF ByteLen(RenderedText) >= MaxLen
    THEN /\ Len(last) >= 2
         /\ last[1].op = "message" /\ ByteLen(last[1].text) <= MaxLen
         /\ last[2] = ColorMessage(TruncatedText, stack_depth)
         /\ NumMessages(last) = 1 /\ NumColor(last) = 1
    ELSE /\ last # <<>> /\ last[1] = Message(RenderedText, stack_depth)
         /\ NumMessages(last) = 1 /\ NumColor(last) = 0

\* C10 as stated: with MaxLen bytes or more, one truncated message and then
\* one truncation diagnostic; below MaxLen, one message with the full text
\* and no diagnostic.
C10_AsStated == Delivered => TruncationOutcome

\* C10 (amended): the same, for an event of which at least one field was
\* rendered; an event with no rendered field sends no message.
C10_NeverDroppedSilently ==
    Delivered =>
        IF SomeFieldRendered THEN TruncationOutcome
        ELSE NumMessages(last) = 0 /\ NumColor(last) = 0

\* a text of exactly MaxLen bytes: sent whole, and the diagnostic follows
C10_Witness ==
    /\ Delivered
    /\ ByteLen(RenderedText) = MaxLen
    /\ last = <<Message(RenderedText, stack_depth), ColorMessage(TruncatedText, stack_depth)>>

----------------------------------------------------------------------------
(* adjust_stack_depth (src/tracy-client/src/lib.rs) *)

\* the width of u16
U16Bits == 16
U16Modulus == U16Max + 1

\* a ^ b and a & b on the low `bits` bits
RECURSIVE BitXor(_, _, _)
BitXor(a, b, bits) ==
    IF bits = 0 THEN 0
    ELSE (IF (a % 2) # (b % 2) THEN 1 ELSE 0) + 2 * BitXor(a \div 2, b \div 2, bits - 1)
RECURSIVE BitOr(_, _, _)
BitOr(a, b, bits) ==
    IF bits = 0 THEN 0
    ELSE (IF a % 2 = 1 \/ b % 2 = 1 THEN 1 ELSE 0) + 2 * BitOr(a \div 2, b \div 2, bits - 1)
RECURSIVE BitAnd(_, _, _)
BitAnd(a, b, bits) ==
    IF bits = 0 THEN 0
    ELSE (IF a % 2 = 1 /\ b % 2 = 1 THEN 1 ELSE 0) + 2 * BitAnd(a \div 2, b \div 2, bits - 1)

\* u16::wrapping_sub
SaturatingSub(a, b) == IF a < b THEN 0 ELSE a - b
wrapping_sub(a, b) == (a - b + U16Modulus) % U16Modulus

\* the deepest callstack the Windows capture accepts
WindowsMaxDepth == 62

\* (depth < 62) as u16
LessAsU16(depth) == IF depth < WindowsMaxDepth THEN 1 ELSE 0

\* #[cfg(windows)] 62 ^ ((depth ^ 62) & 0u16.wrapping_sub((depth < 62) as _))
\* #[cfg(not(windows))] depth
adjust_stack_depthOrMask(windows, depth) ==
    IF windows
    THEN BitXor(WindowsMaxDepth,
                BitOr(BitXor(depth, WindowsMaxDepth, U16Bits),
                      wrapping_sub(0, LessAsU16(depth)), U16Bits),
                U16Bits)
    ELSE depth
adjust_stack_depth(windows, depth) ==
    IF windows
    THEN BitXor(WindowsMaxDepth,
                BitAnd(BitXor(depth, WindowsMaxDepth, U16Bits),
                       wrapping_sub(0, LessAsU16(depth)), U16Bits),
                U16Bits)
    ELSE depth

\* the layer and its stacks as constructed, no callback delivered
Untouched ==
    /\ stack = [t \in Threads |-> <<>>]
    /\ stack_depth = DefaultStackDepth
    /\ frames = <<>>
    /\ diag = [t \in Threads |-> [empty |-> 0, order |-> 0]]
    /\ last = <<>>
    /\ cb = [op |-> "none"]
    /\ hist = [t \in Threads |-> <<>>]
    /\ ncalls = 0
    /\ event = <<>>

\* any 16-bit depth, on either build
InitClamp ==
    /\ Untouched
    /\ heap = NoHeap
    /\ clamp \in [pc : {"start"}, windows : BOOLEAN, depth : 0..U16Max, once : {0}, twice : {0}]

\* the depth clamped, and the clamped depth clamped again
Adjust ==
    /\ clamp.pc = "start"
    /\ clamp' = [clamp EXCEPT !.pc = "done",
                              !.once = adjust_stack_depth(clamp.windows, clamp.depth),
                              !.twice = adjust_stack_depth(clamp.windows,
                                            adjust_stack_depth(clamp.windows, clamp.depth))]
    /\ UNCHANGED <<stack, stack_depth, frames, diag, last, cb, hist, ncalls, event, heap>>

NextClamp == Adjust

SpecClamp == InitClamp /\ [][NextClamp]_vars

----------------------------------------------------------------------------
(* Claims about adjust_stack_depth *)

Clamped == clamp.pc = "done"

\* C11: on both builds, clamping a clamped depth returns it unchanged, and
\* clamping never returns more than the depth requested.
C11_ClampIdempotentNonIncreasing ==
    Clamped => (clamp.twice = clamp.once /\ clamp.once <= clamp.depth)

C11_Witness ==
    /\ Clamped /\ clamp.windows
    /\ clamp.depth = U16Max
    /\ clamp.once = WindowsMaxDepth /\ clamp.twice = WindowsMaxDepth

Min(a, b) == IF a < b THEN a ELSE b

\* C16: on the Windows build the result is min(depth, 62) for every 16-bit
\* depth; on every other build it is the depth itself.
C16_ClampIsMin ==
    Clamped =>
        /\ clamp.once \in 0..U16Max
        /\ clamp.once = IF clamp.windows THEN Min(clamp.depth, WindowsMaxDepth) ELSE clamp.depth

\* just below the maximum the mask is all ones and the depth passes through
C16_Witness ==
    /\ Clamped /\ clamp.windows
    /\ clamp.depth = WindowsMaxDepth - 1
    /\ clamp.once = WindowsMaxDepth - 1
    /\ wrapping_sub(0, LessAsU16(clamp.depth)) = U16Max

----------------------------------------------------------------------------
(* ProfiledAllocator<T>(T, u16): the GlobalAlloc methods of the wrapper, run  *)
(* by several threads at once.  Each method is a short straight-line program  *)
(* of calls to the inner allocator and to the profiler; the threads           *)
(* interleave between those calls.  The build modelled has the `enable`       *)
(* feature on, so emit_alloc and emit_free reach the profiler.                *)

Null == 0
Addrs == {1, 2}
Sizes == {1, 2}
ExampleDepth == 100
CallstackDepths == {0, ExampleDepth}
MaxAllocOps == 3

Ops == {"alloc", "alloc_zeroed", "dealloc", "realloc"}

\* the calls each method makes, in source order
StepsInnerFirst(op) ==
    CASE op = "alloc" -> <<"inner", "emit_alloc">>
      [] op = "alloc_zeroed" -> <<"inner", "emit_alloc">>
      [] op = "dealloc" -> <<"inner", "emit_free">>
      [] op = "realloc" -> <<"inner", "emit_free", "emit_alloc">>
Steps(op) ==
    CASE op = "alloc" -> <<"inner", "emit_alloc">>
      [] op = "alloc_zeroed" -> <<"inner", "emit_alloc">>
      [] op = "dealloc" -> <<"emit_free", "inner">>
      [] op = "realloc" -> <<"emit_free", "inner", "emit_alloc">>

\* the profiler calls; self.1 = 0 selects the variant without a callstack
emit_alloc(depth, ptr, size) ==
    [k |-> "emit",
     fn |-> IF depth = 0 THEN "___tracy_emit_memory_alloc"
            ELSE "___tracy_emit_memory_alloc_callstack",
     ptr |-> ptr, size |-> size, depth |-> depth]
emit_free(depth, ptr) ==
    [k |-> "emit",
     fn |-> IF depth = 0 THEN "___tracy_emit_memory_free"
            ELSE "___tracy_emit_memory_free_callstack",
     ptr |-> ptr, size |-> 0, depth |-> depth]
\* the call of self.0.<op> and what it returned
InnerCall(op, ptr, size, new_size, ret) ==
    [k |-> "inner", op |-> op, ptr |-> ptr, size |-> size, new_size |-> new_size,
     ret |-> ret]

\* the inner allocator: live[a] is the size of the block at a, 0 when a is free
NoBlocks == [a \in Addrs |-> 0]
LiveSet(live) == {a \in Addrs : live[a] # 0}
\* alloc and alloc_zeroed return a free address, or null on failure
InnerAllocResults(live) == {Null} \cup (Addrs \ LiveSet(live))
\* realloc returns null and leaves the block, or resizes it in place, or moves it
InnerReallocResults(live, ptr) == {Null, ptr} \cup (Addrs \ LiveSet(live))
InnerAlloc(live, size, r) == IF r = Null THEN live ELSE [live EXCEPT ![r] = size]
InnerDealloc(live, ptr) == [live EXCEPT ![ptr] = 0]
InnerRealloc(live, ptr, new_size, r) ==
    IF r = Null THEN live ELSE [[live EXCEPT ![ptr] = 0] EXCEPT ![r] = new_size]

\* the profiler's set of addresses reported allocated and not yet freed, and
\* the events it cannot match
ProfilerAlloc(h, ptr) ==
    [h EXCEPT !.reported = @ \cup {ptr},
              !.anomalies = @ \cup (IF ptr \in h.reported THEN {"alloc of reported"} ELSE {})]
ProfilerFree(h, ptr) ==
    [h EXCEPT !.reported = @ \ {ptr},
              !.anomalies = @ \cup (IF ptr \in h.reported THEN {} ELSE {"free of unreported"})]

NoCall == [op |-> "none", ptr |-> Null, size |-> 0, new_size |-> 0,
           alloc |-> None, ret |-> None, trace |-> <<>>]
Running(th) == th.op # "none" /\ Len(th.trace) < Len(Steps(th.op))
NextStep(th) == Steps(th.op)[Len(th.trace) + 1]

\* ProfiledAllocator::new(inner_allocator, callstack_depth)
new(windows, callstack_depth) ==
    [pc |-> "run", depth |-> adjust_stack_depth(windows, callstack_depth),
     live |-> NoBlocks, held |-> {}, reported |-> {}, anomalies |-> {},
     thr |-> [t \in Threads |-> NoCall], nops |-> 0]

InitHeap ==
    /\ Untouched
    /\ clamp = NoClamp
    /\ heap \in {new(w, d) : w \in BOOLEAN, d \in CallstackDepths}

HeapOnly == UNCHANGED <<stack, stack_depth, frames, diag, last, cb, hist, ncalls, event, clamp>>

\* a thread calls a method; dealloc and realloc take a block the caller holds
\* and its layout, as the GlobalAlloc contract requires
CanCall(t) == ~Running(heap.thr[t]) /\ heap.nops < MaxAllocOps
Called(h, t, op, ptr, size, new_size) ==
    [h EXCEPT !.thr[t] = [NoCall EXCEPT !.op = op, !.ptr = ptr, !.size = size,
                                        !.new_size = new_size],
              !.held = @ \ {ptr},
              !.nops = @ + 1]

alloc(t) ==
    /\ CanCall(t)
    /\ \E size \in Sizes : heap' = Called(heap, t, "alloc", Null, size, 0)
    /\ HeapOnly
alloc_zeroed(t) ==
    /\ CanCall(t)
    /\ \E size \in Sizes : heap' = Called(heap, t, "alloc_zeroed", Null, size, 0)
    /\ HeapOnly
dealloc(t) ==
    /\ CanCall(t)
    /\ \E ptr \in heap.held : heap' = Called(heap, t, "dealloc", ptr, heap.live[ptr], 0)
    /\ HeapOnly
realloc(t) ==
    /\ CanCall(t)
    /\ \E ptr \in heap.held, new_size \in Sizes :
           heap' = Called(heap, t, "realloc", ptr, heap.live[ptr], new_size)
    /\ HeapOnly

\* what the method returns once its last call is made, and the blocks the
\* caller holds from then on
Returned(th) ==
    IF Len(th.trace) = Len(Steps(th.op))
    THEN (IF th.op = "dealloc" THEN Some("unit") ELSE th.alloc)
    ELSE None
HeldAfter(held, th) ==
    IF Returned(th) = None \/ th.op = "dealloc" THEN held
    ELSE IF Unwrap(th.alloc) # Null THEN held \cup {Unwrap(th.alloc)}
    ELSE IF th.op = "realloc" THEN held \cup {th.ptr}
    ELSE held
Finish(h, t) ==
    [h EXCEPT !.thr[t].ret = Returned(h.thr[t]), !.held = HeldAfter(@, h.thr[t])]

\* self.0.alloc(layout) / alloc_zeroed(layout) / dealloc(ptr, layout) /
\* realloc(ptr, layout, new_size)
inner(t) ==
    LET th == heap.thr[t] IN
    /\ Running(th) /\ NextStep(th) = "inner"
    /\ \E r \in (IF th.op = "dealloc" THEN {Null}
                 ELSE IF th.op = "realloc" THEN InnerReallocResults(heap.live, th.ptr)
                 ELSE InnerAllocResults(heap.live)) :
           heap' = Finish([heap EXCEPT
               !.live = IF th.op = "dealloc" THEN InnerDealloc(@, th.ptr)
                        ELSE IF th.op = "realloc" THEN InnerRealloc(@, th.ptr, th.new_size, r)
                        ELSE InnerAlloc(@, th.size, r),
               !.thr[t].alloc = IF th.op = "dealloc" THEN None ELSE Some(r),
               !.thr[t].trace = Append(@, InnerCall(th.op, th.ptr, th.size, th.new_size, r))], t)
    /\ HeapOnly

\* self.emit_alloc(alloc, layout.size()) / self.emit_alloc(alloc, new_size)
EmitAlloc(t) ==
    LET th == heap.thr[t]
        size == IF th.op = "realloc" THEN th.new_size ELSE th.size IN
    /\ Running(th) /\ NextStep(th) = "emit_alloc"
    /\ heap' = Finish([ProfilerAlloc(heap, Unwrap(th.alloc)) EXCEPT
           !.thr[t].trace = Append(@, emit_alloc(heap.depth, Unwrap(th.alloc), size))], t)
    /\ HeapOnly

\* self.emit_free(ptr)
EmitFree(t) ==
    LET th == heap.thr[t] IN
    /\ Running(th) /\ NextStep(th) = "emit_free"
    /\ heap' = Finish([ProfilerFree(heap, th.ptr) EXCEPT
           !.thr[t].trace = Append(@, emit_free(heap.depth, th.ptr))], t)
    /\ HeapOnly

NextHeap ==
    \E t \in Threads :
        \/ alloc(t) \/ alloc_zeroed(t) \/ dealloc(t) \/ realloc(t)
        \/ inner(t) \/ EmitAlloc(t) \/ EmitFree(t)

SpecHeap == InitHeap /\ [][NextHeap]_vars

Quiescent == \A t \in Threads : ~Running(heap.thr[t])

\* C18 as stated: no free event names an address not reported allocated, no
\* alloc event names an address reported allocated, and whenever no method is
\* in progress the addresses reported allocated are the blocks live in the
\* inner allocator.
C18_AsStated ==
    /\ heap.anomalies = {}
    /\ Quiescent => heap.reported = LiveSet(heap.live)

\* an inner allocator call has returned null
InnerFailed ==
    \/ Null \in heap.reported
    \/ \E t \in Threads : heap.thr[t].alloc = Some(Null)

\* as long as the inner allocator never fails, the events are consistent
C18_ConsistentWithoutFailure == InnerFailed \/ C18_AsStated

\* the calls of one method so far, against the source order
InOrder(th, depth) ==
    LET n == Len(th.trace)
        r == th.trace[IF th.op \in {"alloc", "alloc_zeroed"} THEN 1 ELSE 2].ret IN
    CASE th.op \in {"alloc", "alloc_zeroed"} ->
             /\ n <= 2
             /\ n >= 1 => th.trace[1] = InnerCall(th.op, Null, th.size, 0, r)
             /\ n >= 2 => th.trace[2] = emit_alloc(depth, r, th.size)
             /\ th.ret = IF n = 2 THEN Some(r) ELSE None
      [] th.op = "dealloc" ->
             /\ n <= 2
             /\ n >= 1 => th.trace[1] = emit_free(depth, th.ptr)
             /\ n >= 2 => th.trace[2] = InnerCall("dealloc", th.ptr, th.size, 0, Null)
             /\ th.ret = IF n = 2 THEN Some("unit") ELSE None
      [] th.op = "realloc" ->
             /\ n <= 3
             /\ n >= 1 => th.trace[1] = emit_free(depth, th.ptr)
             /\ n >= 2 => th.trace[2] = InnerCall("realloc", th.ptr, th.size, th.new_size, r)
             /\ n >= 3 => th.trace[3] = emit_alloc(depth, r, th.new_size)
             /\ th.ret = IF n = 3 THEN Some(r) ELSE None
      [] OTHER -> th.trace = <<>>

====
